---- MODULE Spec2Model ----
(***************************************************************************)
(* A model of z_scripts/auto_latexmk.py: the classifier of main .tex      *)
(* files, the discovery walk, the executor of one latexmk task and the    *)
(* process-pool loop that collects the results.                            *)
(*                                                                         *)
(* Text is modelled as sequences of atoms: a line is a sequence of atoms,  *)
(* an atom is an indivisible piece of text (a word, a run of blanks).  A   *)
(* substring test looks for the word inside each atom, a prefix test looks *)
(* at the first atom; no sample atom lets a word straddle two atoms.       *)
(***************************************************************************)
EXTENDS Integers, Sequences, FiniteSets, TLC

VARIABLES
    pc,                 \* position of the program
    file,               \* the candidate file handed to is_main_tex_file
    is_main,            \* what is_main_tex_file returned: <<>> before the call
    detected,           \* what get_tex_engine returned: <<>> before the call
    root_dir,           \* main: args.root_dir
    tree,               \* the directory tree below root_dir
    default_engine,     \* main: args.engine
    only_include_mode,  \* main: args.only_include
    tasks,              \* generate_compile_tasks: the task list
    quiet_in_process,   \* main: args.quiet
    futures,            \* run_compile_tasks: one future per submitted task
    state,              \* per task: where its executor is
    attempts,           \* per task: how often subprocess.run was called for it
    beh,                \* per task: what the external tool did, <<>> before
    yielded,            \* futures as_completed has handed to the loop
    task_cnt,           \* run_compile_tasks: task_cnt
    task_results,       \* run_compile_tasks: task_results
    worker_task,        \* per task: the worker's task argument after the call
    dry_run,            \* main: args.dry_run
    pre_clean,          \* main: args.pre_clean
    no_compile,         \* main: args.no_compile
    verbose,            \* main: args.verbose
    aux_dirs,           \* the .aux directories that exist below root_dir
    out,                \* the lines printed on standard output
    logfile,            \* the lines of auto-latexmk.log
    log_status          \* output_to_json_logfile: "none", "written" or "error"

vars == <<pc, file, is_main, detected, root_dir, tree, default_engine,
          only_include_mode, tasks, quiet_in_process, futures, state, attempts, beh,
          yielded, task_cnt, task_results, worker_task, dry_run, pre_clean,
          no_compile, verbose, aux_dirs, out, logfile, log_status>>

classifyVars == <<file, is_main, detected>>
discoveryVars == <<root_dir, tree, default_engine, only_include_mode, tasks>>
poolVars == <<quiet_in_process, futures, state, attempts, beh, yielded,
              task_cnt, task_results, worker_task>>
argVars == <<dry_run, pre_clean, no_compile, verbose>>
effectVars == <<aux_dirs, out, logfile, log_status>>
fileVars == <<aux_dirs, logfile, log_status>>

---------------------------------------------------------------------------
(* Bounds of the model. *)

\* lines of a candidate file in the classifier specification
MaxLines == 4
\* files of a directory tree in the discovery specification
MaxFiles == 3
\* tasks of a batch in the pool specification
MaxTasks == 2
\* worker processes of the pool (the host's parallelism)
PoolSize == 2
MaxMainTasks == 1
MaxResults == 3

---------------------------------------------------------------------------
(* Text: atoms, lines, str.strip, str.lower, startswith, in. *)

BLANK == " "

\* str.lower on one atom
Lower(atom) ==
    CASE atom = "% AUTO-LATEXMK" -> "% auto-latexmk"
      [] atom = "EXCLUDE" -> "exclude"
      [] atom = "Skip" -> "skip"
      [] atom = "INCLUDE" -> "include"
      [] atom = "\\DocumentClass" -> "\\documentclass"
      [] atom = "% !TEX" -> "% !tex"
      [] OTHER -> atom

\* the words (of those the program searches for) that occur inside an atom,
\* compared case-sensitively as Python's `in` does
WordsIn(atom) ==
    CASE atom = "exclude" -> {"exclude"}
      [] atom = "excluded" -> {"exclude"}
      [] atom = "skip" -> {"skip"}
      [] atom = "include" -> {"include"}
      [] atom = "\\include{ch1}" -> {"include"}
      [] atom = "\\documentclass" -> {"\\documentclass"}
      [] atom = "\\documentclass{ctexart}" -> {"\\documentclass", "ctex"}
      [] atom = "ctex" -> {"ctex"}
      [] atom = "\\usepackage{ctex}" -> {"ctex"}
      [] atom = "\\begin{document}" -> {"\\begin{document}"}
      [] atom = "xelatex" -> {"xelatex"}
      [] atom = "pdflatex" -> {"pdflatex"}
      [] atom = "lualatex" -> {"lualatex"}
      [] OTHER -> {}

RECURSIVE LStrip(_)
LStrip(line) ==
    IF line # <<>> /\ Head(line) = BLANK THEN LStrip(Tail(line)) ELSE line

RECURSIVE RStrip(_)
RStrip(line) ==
    IF line # <<>> /\ line[Len(line)] = BLANK
    THEN RStrip(SubSeq(line, 1, Len(line) - 1))
    ELSE line

\* str.strip
Strip(line) == RStrip(LStrip(line))

\* str.lower on a line
LowerLine(line) == [i \in 1..Len(line) |-> Lower(line[i])]

\* str.startswith
StartsWith(line, prefix) == line # <<>> /\ Head(line) = prefix

\* word in line
Contains(line, word) == \E i \in 1..Len(line) : word \in WordsIn(line[i])

\* f.read(): the whole content; the search in it is the search in its lines
ContentContains(lines, word) == \E i \in 1..Len(lines) : Contains(lines[i], word)

---------------------------------------------------------------------------
(* is_main_tex_file *)

\* a scan that knows the word exclude only, and not skip
RECURSIVE ScanDirectivesNoSkip(_, _, _)
ScanDirectivesNoSkip(lines, n, flags) ==
    IF n = 0 \/ lines = <<>>
    THEN flags
    ELSE LET line_strip == LowerLine(Strip(Head(lines)))
             directive == StartsWith(line_strip, "% auto-latexmk")
             ex == flags.exclude_flag
                   \/ (directive /\ Contains(line_strip, "exclude"))
             inc == flags.include_flag
                    \/ (directive /\ Contains(line_strip, "include"))
         IN ScanDirectivesNoSkip(Tail(lines), n - 1,
                                 [exclude_flag |-> ex, include_flag |-> inc])

\* the loop over the first three lines: folds (exclude_flag, include_flag)
RECURSIVE ScanDirectives(_, _, _)
ScanDirectives(lines, n, flags) ==
    IF n = 0 \/ lines = <<>>
    THEN flags
    ELSE LET line_strip == LowerLine(Strip(Head(lines)))
             directive == StartsWith(line_strip, "% auto-latexmk")
             ex == flags.exclude_flag
                   \/ (directive /\ (Contains(line_strip, "exclude")
                                     \/ Contains(line_strip, "skip")))
             inc == flags.include_flag
                    \/ (directive /\ Contains(line_strip, "include"))
         IN ScanDirectives(Tail(lines), n - 1,
                           [exclude_flag |-> ex, include_flag |-> inc])

\* range(3)
DirectiveLines == 3

\* a classifier that reads the directives of the whole file
is_main_tex_file_AllLines(f, mode) ==
    IF ~f.readable
    THEN FALSE
    ELSE LET flags == ScanDirectives(f.lines, Len(f.lines),
                          [exclude_flag |-> FALSE, include_flag |-> FALSE])
             has_docclass == ContentContains(f.lines, "\\documentclass")
         IN IF ~has_docclass THEN FALSE
            ELSE IF mode THEN flags.include_flag
            ELSE ~flags.exclude_flag

\* a classifier that does not look for \documentclass
is_main_tex_file_NoMarkerCheck(f, mode) ==
    IF ~f.readable
    THEN FALSE
    ELSE LET flags == ScanDirectives(f.lines, DirectiveLines,
                          [exclude_flag |-> FALSE, include_flag |-> FALSE])
         IN IF mode THEN flags.include_flag
            ELSE ~flags.exclude_flag

\* a classifier that reads the lines of a file whose read raises
is_main_tex_file_IgnoringReadError(f, mode) ==
    LET flags == ScanDirectives(f.lines, DirectiveLines,
                     [exclude_flag |-> FALSE, include_flag |-> FALSE])
        has_docclass == ContentContains(f.lines, "\\documentclass")
    IN IF ~has_docclass THEN FALSE
       ELSE IF mode THEN flags.include_flag
       ELSE ~flags.exclude_flag

is_main_tex_file(f, mode) ==
    IF ~f.readable
    THEN FALSE
    ELSE LET flags == ScanDirectives(f.lines, DirectiveLines,
                          [exclude_flag |-> FALSE, include_flag |-> FALSE])
             has_docclass == ContentContains(f.lines, "\\documentclass")
         IN IF ~has_docclass THEN FALSE
            ELSE IF mode THEN flags.include_flag
            ELSE ~flags.exclude_flag

---------------------------------------------------------------------------
(* get_tex_engine *)

\* the value None of an optional field is the empty tuple, a value v is <<v>>
None == <<>>
Some(v) == <<v>>

\* a scan for ctex that does not stop at \begin{document}
RECURSIVE ScanCtexWholeFile(_, _)
ScanCtexWholeFile(lines, engine) ==
    IF lines = <<>>
    THEN [engine |-> engine, append_info |-> None]
    ELSE LET line == Strip(Head(lines))
         IN IF Contains(line, "ctex")
            THEN [engine |-> "xelatex", append_info |-> Some(line)]
            ELSE ScanCtexWholeFile(Tail(lines), engine)

\* the scan for ctex before \begin{document}: (engine, append_info)
RECURSIVE ScanCtex(_, _)
ScanCtex(lines, engine) ==
    IF lines = <<>>
    THEN [engine |-> engine, append_info |-> None]
    ELSE LET line == Strip(Head(lines))
         IN IF Contains(line, "\\begin{document}")
            THEN [engine |-> engine, append_info |-> None]
            ELSE IF Contains(line, "ctex")
            THEN [engine |-> "xelatex", append_info |-> Some(line)]
            ELSE ScanCtex(Tail(lines), engine)

get_tex_engine(f, engine) ==
    IF ~f.readable
    THEN [engine |-> engine, append_info |-> None]
    ELSE LET first_line == IF f.lines = <<>> THEN <<>> ELSE Strip(Head(f.lines))
         IN IF StartsWith(first_line, "% !TEX") /\ Contains(first_line, "xelatex")
            THEN [engine |-> "xelatex", append_info |-> Some(first_line)]
            ELSE IF StartsWith(first_line, "% !TEX") /\ Contains(first_line, "pdflatex")
            THEN [engine |-> "pdflatex", append_info |-> Some(first_line)]
            ELSE IF StartsWith(first_line, "% !TEX") /\ Contains(first_line, "lualatex")
            THEN [engine |-> "lualatex", append_info |-> Some(first_line)]
            ELSE ScanCtex(f.lines, engine)

---------------------------------------------------------------------------
(* Paths.  A path is [abs, comps]: whether it starts at the filesystem     *)
(* root, and its components; a component (a file or directory name) is a   *)
(* tuple of atoms, so that "main.tex" is <<"main", ".tex">>.               *)

\* the process's current directory
Cwd == << <<"home">> >>

DOT == <<".">>

\* os.path.join(path, name)
Join(path, name) == [abs |-> path.abs, comps |-> Append(path.comps, name)]

\* os.path.normpath on the components: "." components are dropped
RECURSIVE NormComps(_)
NormComps(comps) ==
    IF comps = <<>> THEN <<>>
    ELSE IF Head(comps) = DOT THEN NormComps(Tail(comps))
    ELSE <<Head(comps)>> \o NormComps(Tail(comps))

\* os.path.abspath(path).replace("\\", "/"): the absolute components
abspath(path) ==
    NormComps(IF path.abs THEN path.comps ELSE Cwd \o path.comps)

\* str.endswith on a file name
EndsWith(name, suffix) == name # <<>> /\ name[Len(name)] = suffix

---------------------------------------------------------------------------
(* The directory tree: a set of files [dir, name, content], dir being the  *)
(* directory's components below root_dir.  A directory exists when a file  *)
(* lies in it or below it.                                                 *)

IsPrefix(p, q) == Len(p) <= Len(q) /\ SubSeq(q, 1, Len(p)) = p

\* the order in which os.walk lists the names of one directory
NameOrder ==
    << <<"main", ".tex">>, <<"part", ".tex">>, <<"notes", ".txt">>,
       <<"a">>, <<"b">>, <<".aux">>, <<".git">> >>

Sorted(names) == SelectSeq(NameOrder, LAMBDA n : n \in names)

\* dirs of one os.walk step: the subdirectories of dir
SubDirs(t, dir) ==
    {e.dir[Len(dir) + 1] : e \in {x \in t : IsPrefix(dir, x.dir) /\ Len(x.dir) > Len(dir)}}

\* files of one os.walk step: the names of the files in dir
FilesIn(t, dir) == {e.name : e \in {x \in t : x.dir = dir}}

FileAt(t, dir, name) == CHOOSE e \in t : e.dir = dir /\ e.name = name

\* a pruning list without the auxiliary directories
SKIP_DIRS_GitOnly == {<<".git">>}

SKIP_DIRS == {<<".git">>, <<".aux">>}

\* os.walk(root_dir, topdown=True) with dirs[:] pruned of SKIP_DIRS: the
\* directories visited, in order
RECURSIVE WalkFrom(_, _)
RECURSIVE WalkEach(_, _, _)
WalkFrom(t, dir) ==
    <<dir>> \o WalkEach(t, dir, Sorted(SubDirs(t, dir) \ SKIP_DIRS))
WalkEach(t, dir, ds) ==
    IF ds = <<>> THEN <<>>
    ELSE WalkFrom(t, Append(dir, Head(ds))) \o WalkEach(t, dir, Tail(ds))

---------------------------------------------------------------------------
(* generate_compile_tasks *)

\* the tasks of one directory with the detected engine stored as it is
RECURSIVE TasksOfFilesNoAlias(_, _, _, _, _, _)
TasksOfFilesNoAlias(root, t, dir, names, engine, mode) ==
    IF names = <<>> THEN <<>>
    ELSE LET name == Head(names)
             subdir == [abs |-> root.abs, comps |-> root.comps \o dir]
             tex_file == abspath(Join(subdir, name))
             f == FileAt(t, dir, name).content
             found == get_tex_engine(f, engine)
             rest == TasksOfFilesNoAlias(root, t, dir, Tail(names), engine, mode)
         IN IF EndsWith(name, ".tex") /\ is_main_tex_file(f, mode)
            THEN << [tex_file |-> tex_file,
                     subdir |-> subdir,
                     engine |-> found.engine,
                     append_info |-> found.append_info] >> \o rest
            ELSE rest

\* the tasks of the .tex files of one directory
RECURSIVE TasksOfFiles(_, _, _, _, _, _)
TasksOfFiles(root, t, dir, names, engine, mode) ==
    IF names = <<>> THEN <<>>
    ELSE LET name == Head(names)
             subdir == [abs |-> root.abs, comps |-> root.comps \o dir]
             tex_file == abspath(Join(subdir, name))
             f == FileAt(t, dir, name).content
             found == get_tex_engine(f, engine)
             rest == TasksOfFiles(root, t, dir, Tail(names), engine, mode)
         IN IF EndsWith(name, ".tex") /\ is_main_tex_file(f, mode)
            THEN << [tex_file |-> tex_file,
                     subdir |-> subdir,
                     engine |-> IF found.engine = "pdflatex" THEN "pdf"
                                ELSE found.engine,
                     append_info |-> found.append_info] >> \o rest
            ELSE rest

RECURSIVE TasksOfDirs(_, _, _, _, _)
TasksOfDirs(root, t, dirs, engine, mode) ==
    IF dirs = <<>> THEN <<>>
    ELSE TasksOfFiles(root, t, Head(dirs), Sorted(FilesIn(t, Head(dirs))), engine, mode)
         \o TasksOfDirs(root, t, Tail(dirs), engine, mode)

generate_compile_tasks(root, t, engine, mode) ==
    TasksOfDirs(root, t, WalkFrom(t, <<>>), engine, mode)

---------------------------------------------------------------------------
(* The external tool.  What one run of latexmk does is an input of the     *)
(* model: it exits after `runtime` seconds with a return code and bytes on *)
(* stderr, it never exits, or it cannot be started at all.                 *)

NoBytes == <<>>

Behaviours ==
    { [kind |-> "exit", runtime |-> 1, returncode |-> 0, stderr |-> NoBytes, error |-> "none"],
      [kind |-> "exit", runtime |-> 1, returncode |-> 0, stderr |-> <<255>>, error |-> "none"],
      [kind |-> "exit", runtime |-> 1, returncode |-> 1, stderr |-> <<69, 33>>, error |-> "none"],
      [kind |-> "exit", runtime |-> 1, returncode |-> 12, stderr |-> <<69, 255>>, error |-> "none"],
      [kind |-> "exit", runtime |-> 180, returncode |-> 1, stderr |-> NoBytes, error |-> "none"],
      [kind |-> "exit", runtime |-> 181, returncode |-> 0, stderr |-> NoBytes, error |-> "none"],
      [kind |-> "hang", runtime |-> 0, returncode |-> 0, stderr |-> NoBytes, error |-> "none"],
      [kind |-> "spawn_error", runtime |-> 0, returncode |-> 0, stderr |-> NoBytes,
       error |-> "FileNotFoundError"],
      [kind |-> "spawn_error", runtime |-> 0, returncode |-> 0, stderr |-> NoBytes,
       error |-> "PermissionError"] }

\* timeout=180
TIMEOUT == 180

\* str(e) of the exceptions the model raises; a text is a tuple of atoms
ExceptionText(name) ==
    CASE name = "FileNotFoundError" -> <<"[Errno 2] No such file or directory: 'latexmk'">>
      [] name = "PermissionError" -> <<"[Errno 13] Permission denied: 'latexmk'">>
      [] name = "UnicodeDecodeError" -> <<"'utf-8' codec can't decode byte 0xff">>
      [] name = "TimeoutExpired" -> <<"Command 'latexmk' timed out after 180 seconds">>
      [] OTHER -> <<name>>

\* the classes `except Exception` catches
ExceptionClasses ==
    {"FileNotFoundError", "PermissionError", "UnicodeDecodeError", "TimeoutExpired", "KeyError"}

\* subprocess.run(latex_full_command, cwd=subdir, capture_output=True, timeout=180):
\* the CompletedProcess, or the exception raised
subprocess_run(b) ==
    IF b.kind = "spawn_error"
    THEN [raised |-> b.error, returncode |-> 0, stderr |-> NoBytes]
    ELSE IF b.kind = "hang" \/ b.runtime > TIMEOUT
    THEN [raised |-> "TimeoutExpired", returncode |-> 0, stderr |-> NoBytes]
    ELSE [raised |-> "none", returncode |-> b.returncode, stderr |-> b.stderr]

\* the character of an ASCII byte
Chr(byte) ==
    CASE byte = 69 -> "E"
      [] byte = 33 -> "!"
      [] OTHER -> "?"

\* bytes.decode("utf-8"): a byte 0xff starts no UTF-8 sequence
Utf8Decode(bytes) ==
    IF \E i \in 1..Len(bytes) : bytes[i] = 255
    THEN [raised |-> "UnicodeDecodeError", text |-> <<>>]
    ELSE [raised |-> "none", text |-> [i \in 1..Len(bytes) |-> Chr(bytes[i])]]

---------------------------------------------------------------------------
(* run_single_compile_task *)

\* an output directory taken from the process's directory, not the task's
out_dir_OfProcess(task) == abspath([abs |-> FALSE, comps |-> <<DOT>>])

out_dir(task) == abspath(task.subdir)
aux_dir(task) == abspath(Join(task.subdir, <<".aux">>))

latex_full_command(task) ==
    << "latexmk", "-file-line-error", "-halt-on-error", "-interaction=nonstopmode",
       "-synctex=1", <<"-", task.engine>>, <<"-auxdir=", aux_dir(task)>>,
       <<"-outdir=", out_dir(task)>>, task.tex_file >>

\* time.time() - start_time, in whole seconds
Elapsed(b) ==
    IF b.kind = "spawn_error" THEN 0
    ELSE IF b.kind = "hang" \/ b.runtime > TIMEOUT THEN TIMEOUT
    ELSE b.runtime

\* dict.update: the keys of `new` replace those of `old`
Update(old, new) == new @@ old

\* the body of the try statement: the update it makes, or the exception
TryCompile(task, b) ==
    LET result == subprocess_run(b)
        decoded == Utf8Decode(result.stderr)
    IN IF result.raised # "none"
       THEN [raised |-> result.raised, outcome |-> "none", update |-> <<>>]
       ELSE IF result.returncode = 0
       THEN [raised |-> "none", outcome |-> "Succeeded",
             update |-> [success |-> TRUE, elapsed_time |-> Elapsed(b),
                         full_command |-> latex_full_command(task)]]
       ELSE IF decoded.raised # "none"
       THEN [raised |-> decoded.raised, outcome |-> "none", update |-> <<>>]
       ELSE [raised |-> "none", outcome |-> "FailedExitCode",
             update |-> [success |-> FALSE, elapsed_time |-> Elapsed(b),
                         error_msg |-> decoded.text,
                         full_command |-> latex_full_command(task)]]

\* a last except clause that catches OSError only
CaughtOSErrorOnly == {"FileNotFoundError", "PermissionError"}

\* the classes the last except clause catches: except Exception
CaughtByLastClause == ExceptionClasses

\* task_result = task: the same dict under a second name
task_alias(task) == [shared |-> TRUE, value |-> task]

\* task_result = task.copy(): a new dict with the items of task
task_copy(task) == [shared |-> FALSE, value |-> task]

\* the whole function: [raised, outcome, value], value being the returned
\* task_result when nothing is raised
run_single_compile_task(task, b) ==
    LET try == TryCompile(task, b)
        task_result == task_copy(task).value
    IN IF try.raised = "none"
       THEN [raised |-> "none", outcome |-> try.outcome,
             value |-> Update(task_result, try.update)]
       ELSE IF try.raised = "TimeoutExpired"
       THEN [raised |-> "none", outcome |-> "FailedTimeout",
             value |-> Update(task_result,
                              [success |-> FALSE, elapsed_time |-> Elapsed(b),
                               error_msg |-> <<"Compilation timed out.">>,
                               full_command |-> latex_full_command(task)])]
       ELSE IF try.raised \in CaughtByLastClause
       THEN [raised |-> "none", outcome |-> "FailedInternalError",
             value |-> Update(task_result,
                              [success |-> FALSE, elapsed_time |-> Elapsed(b),
                               error_msg |-> ExceptionText(try.raised),
                               full_command |-> latex_full_command(task)])]
       ELSE [raised |-> try.raised, outcome |-> "none", value |-> <<>>]

\* the caller's task dict after the call: the updates reach it only when
\* task_result is the same dict
TaskAfterCall(task, b) ==
    LET r == run_single_compile_task(task, b)
    IN IF task_copy(task).shared /\ r.raised = "none" THEN r.value ELSE task

---------------------------------------------------------------------------
(* The reports.  A printed line is a record: its kind, and the values the  *)
(* f-string puts into it.                                                  *)

NoField == <<>>

Line(kind, counter, tex_file, engine, text) ==
    [kind |-> kind, counter |-> counter, tex_file |-> tex_file, engine |-> engine,
     text |-> text]

\* len(str(n))
Width(n) == IF n < 10 THEN 1 ELSE IF n < 100 THEN 2 ELSE 3

\* f"{task_cnt+1:>{width}}/{task_nums}": the padding, the number, the total
Counter(cnt, task_nums) ==
    <<Width(task_nums) - Width(cnt + 1), cnt + 1, task_nums>>

\* a progress report in which quiet mode silences the failures too
show_current_compile_result_QuietAll(task_result, task_nums, cnt, quiet) ==
    IF quiet THEN <<>>
    ELSE IF ~task_result.success
    THEN << Line("current_failed", Counter(cnt, task_nums), task_result.tex_file,
                 task_result.engine, <<task_result.elapsed_time>>),
            Line("full_command", NoField, NoField, NoField, task_result.full_command),
            Line("error_msg", NoField, NoField, NoField, task_result.error_msg) >>
    ELSE << Line("current_succeeded", Counter(cnt, task_nums),
                 task_result.tex_file, task_result.engine,
                 <<task_result.elapsed_time>>) >>

\* the lines show_current_compile_result prints
show_current_compile_result(task_result, task_nums, cnt, quiet) ==
    IF ~task_result.success
    THEN << Line("current_failed", Counter(cnt, task_nums), task_result.tex_file,
                 task_result.engine, <<task_result.elapsed_time>>),
            Line("full_command", NoField, NoField, NoField, task_result.full_command),
            Line("error_msg", NoField, NoField, NoField, task_result.error_msg) >>
    ELSE IF ~quiet
    THEN << Line("current_succeeded", Counter(cnt, task_nums),
                 task_result.tex_file, task_result.engine,
                 <<task_result.elapsed_time>>) >>
    ELSE <<>>

\* the number of results with the given value of success
RECURSIVE CountOf(_, _)
CountOf(results, success) ==
    IF results = <<>> THEN 0
    ELSE (IF Head(results).success = success THEN 1 ELSE 0)
         + CountOf(Tail(results), success)

\* the second loop of show_compile_results: three lines per failed result
RECURSIVE FailedTaskLines(_)
FailedTaskLines(results) ==
    IF results = <<>> THEN <<>>
    ELSE LET r == Head(results)
         IN (IF ~r.success
             THEN << Line("failed_task", NoField, r.tex_file, r.engine, NoField),
                     Line("full_command", NoField, NoField, NoField, r.full_command),
                     Line("error_msg", NoField, NoField, NoField, r.error_msg) >>
             ELSE <<>>)
            \o FailedTaskLines(Tail(results))

\* a final report that lists the failed tasks only when nothing succeeded
show_compile_results_AllOrNothing(tasks_results) ==
    LET sucess_cnt == CountOf(tasks_results, TRUE)
        failed_cnt == CountOf(tasks_results, FALSE)
        summary == Line("summary", NoField, NoField, NoField, <<sucess_cnt, failed_cnt>>)
    IN IF sucess_cnt # 0 THEN <<summary>>
       ELSE <<summary, Line("failed_tasks", NoField, NoField, NoField, NoField)>>
            \o FailedTaskLines(tasks_results)

\* the lines show_compile_results prints
show_compile_results(tasks_results) ==
    LET sucess_cnt == CountOf(tasks_results, TRUE)
        failed_cnt == CountOf(tasks_results, FALSE)
        summary == Line("summary", NoField, NoField, NoField, <<sucess_cnt, failed_cnt>>)
    IN IF failed_cnt = 0 THEN <<summary>>
       ELSE <<summary, Line("failed_tasks", NoField, NoField, NoField, NoField)>>
            \o FailedTaskLines(tasks_results)

\* the lines of main's dry-run branch
DryRunLines(ts) ==
    << Line("dry_run_header", NoField, NoField, NoField, <<Len(ts)>>) >>
    \o [k \in 1..Len(ts) |->
           Line("dry_run_task", Counter(k - 1, Len(ts)), ts[k].tex_file, ts[k].engine,
                NoField)]
    \o << Line("dry_run_finished", NoField, NoField, NoField, NoField) >>

---------------------------------------------------------------------------
(* The log file.  A line of the file is a record: its indentation, the     *)
(* JSON token that shapes it, and the key and value it holds.              *)

\* indent=4
Indent == 4

JsonLine(indent, token, key, value) ==
    [indent |-> indent, token |-> token, key |-> key, value |-> value]

\* the order of a result dict's items: the keys of the task, then those of
\* the update
KeyOrder ==
    << "tex_file", "subdir", "engine", "append_info", "success", "elapsed_time",
       "error_msg", "full_command" >>

\* the keys whose value is a Python list
ListKeys == {"full_command"}

\* one member of the object: a scalar on one line, a non-empty list with one
\* line per item between its brackets
JsonMember(obj, k) ==
    IF k \in ListKeys /\ obj[k] # <<>>
    THEN << JsonLine(Indent, "[", k, <<>>) >>
         \o [j \in 1..Len(obj[k]) |-> JsonLine(2 * Indent, "item", "", <<obj[k][j]>>)]
         \o << JsonLine(Indent, "]", "", <<>>) >>
    ELSE << JsonLine(Indent, "member", k, <<obj[k]>>) >>

RECURSIVE JsonMembers(_, _)
JsonMembers(obj, keys) ==
    IF keys = <<>> THEN <<>>
    ELSE JsonMember(obj, Head(keys)) \o JsonMembers(obj, Tail(keys))

\* json.dump(task_result, f, ensure_ascii=False, indent=4); f.write("\n"):
\* the lines written for one result
json_dump(obj) ==
    << JsonLine(0, "{", "", <<>>) >>
    \o JsonMembers(obj, SelectSeq(KeyOrder, LAMBDA k : k \in DOMAIN obj))
    \o << JsonLine(0, "}", "", <<>>) >>

RECURSIVE DumpAll(_)
DumpAll(results) ==
    IF results = <<>> THEN <<>>
    ELSE json_dump(Head(results)) \o DumpAll(Tail(results))

\* a log opened in append mode
output_to_json_logfile_Appending(old, tasks_results, fail_at) ==
    IF fail_at = 0
    THEN [content |-> old, status |-> "error"]
    ELSE IF fail_at <= Len(tasks_results)
    THEN [content |-> old \o DumpAll(SubSeq(tasks_results, 1, fail_at - 1)),
          status |-> "error"]
    ELSE [content |-> old \o DumpAll(tasks_results), status |-> "written"]

\* the file after output_to_json_logfile, and whether the function logged
\* success or an error: open raises (fail_at = 0), or writing the record
\* number fail_at raises, or nothing does
output_to_json_logfile(old, tasks_results, fail_at) ==
    IF fail_at = 0
    THEN [content |-> old, status |-> "error"]
    ELSE IF fail_at <= Len(tasks_results)
    THEN [content |-> DumpAll(SubSeq(tasks_results, 1, fail_at - 1)),
          status |-> "error"]
    ELSE [content |-> DumpAll(tasks_results), status |-> "written"]

\* shutil.rmtree on each .aux directory the walk finds: those whose removal
\* raises stay
clean_all_aux_subdirs_if_exist(existing, failing) == existing \cap failing

---------------------------------------------------------------------------
(* Sample inputs. *)

Min(a, b) == IF a < b THEN a ELSE b

RECURSIVE SeqsUpTo(_, _)
\* the sequences over S of length at most n
SeqsUpTo(S, n) ==
    IF n = 0 THEN {<<>>}
    ELSE LET shorter == SeqsUpTo(S, n - 1)
         IN shorter \cup {Append(q, x) : q \in {r \in shorter : Len(r) = n - 1}, x \in S}

\* lines of the files the classifier is tried on
ClassifyLines ==
    { <<"% auto-latexmk", BLANK, "exclude">>,
      <<BLANK, "% AUTO-LATEXMK", BLANK, "Skip", BLANK>>,
      <<"% auto-latexmk", BLANK, "include">>,
      <<"% auto-latexmk", BLANK, "INCLUDE", BLANK, "skip">>,
      <<"%", BLANK, "% auto-latexmk", BLANK, "exclude">>,
      <<"\\documentclass", "{article}">>,
      <<"\\DocumentClass", "{article}">>,
      <<"\\include{ch1}">>,
      <<"text">> }

ClassifyFiles ==
    [readable : BOOLEAN, lines : SeqsUpTo(ClassifyLines, MaxLines)]

\* contents of the files of the sample trees
PlainMain == [readable |-> TRUE, lines |-> << <<"\\documentclass", "{article}">> >>]
NoMarker ==
    [readable |-> TRUE,
     lines |-> << <<"% auto-latexmk", BLANK, "include">>, <<"\\include{ch1}">> >>]
Excluded ==
    [readable |-> TRUE,
     lines |-> << <<"% auto-latexmk", BLANK, "exclude">>,
                  <<"\\documentclass{ctexart}">> >>]
IncludedPdf ==
    [readable |-> TRUE,
     lines |-> << <<"% !TEX", BLANK, "pdflatex">>,
                  <<"% auto-latexmk", BLANK, "include">>,
                  <<"\\documentclass", "{article}">> >>]
CtexMain ==
    [readable |-> TRUE,
     lines |-> << <<"\\documentclass", "{article}">>, <<"\\usepackage{ctex}">>,
                  <<"\\begin{document}">> >>]
Unreadable == [readable |-> FALSE, lines |-> << <<"\\documentclass", "{article}">> >>]

TreeContents == {PlainMain, NoMarker, Excluded, IncludedPdf, Unreadable}

\* the places of the files of the sample trees
TreeSlots ==
    { [dir |-> <<>>, name |-> <<"main", ".tex">>],
      [dir |-> <<>>, name |-> <<"part", ".tex">>],
      [dir |-> << <<"a">> >>, name |-> <<"main", ".tex">>],
      [dir |-> << <<"a">> >>, name |-> <<"notes", ".txt">>],
      [dir |-> << <<".aux">> >>, name |-> <<"main", ".tex">>],
      [dir |-> << <<"a">>, <<".git">>, <<"b">> >>, name |-> <<"main", ".tex">>] }

\* the trees with at most MaxFiles files
Trees ==
    UNION { { {[dir |-> s.dir, name |-> s.name, content |-> c[s]] : s \in slots}
              : c \in [slots -> TreeContents] }
            : slots \in {x \in SUBSET TreeSlots : Cardinality(x) <= MaxFiles} }

RootDirs ==
    { [abs |-> TRUE, comps |-> << <<"r">> >>],
      [abs |-> FALSE, comps |-> << DOT >>] }

Engines == {"xelatex", "pdflatex", "lualatex"}

\* the files of the batches the pool is tried on: all of them main files
BatchFiles ==
    << [dir |-> <<>>, name |-> <<"main", ".tex">>, content |-> PlainMain],
       [dir |-> << <<"a">> >>, name |-> <<"main", ".tex">>, content |-> IncludedPdf],
       [dir |-> <<>>, name |-> <<"part", ".tex">>, content |-> CtexMain],
       [dir |-> << <<"b">> >>, name |-> <<"main", ".tex">>, content |-> PlainMain] >>

BatchTree(n) == {BatchFiles[i] : i \in 1..n}

BatchTrees == {BatchTree(n) : n \in 0..Min(MaxTasks, Len(BatchFiles))}

---------------------------------------------------------------------------
(* The classifier on one file. *)

NotCalled == <<>>

\* the variables of main's run, for a function tried on its own: no flag set,
\* nothing printed, no file written
NoRun ==
    /\ worker_task = <<>>
    /\ dry_run = FALSE
    /\ pre_clean = FALSE
    /\ no_compile = FALSE
    /\ verbose = FALSE
    /\ aux_dirs = {}
    /\ out = <<>>
    /\ logfile = <<>>
    /\ log_status = "none"

Classify ==
    /\ pc = "classify"
    /\ is_main' = <<is_main_tex_file(file, only_include_mode)>>
    /\ pc' = "classified"
    /\ UNCHANGED <<file, detected, discoveryVars, poolVars, argVars, effectVars>>

InitClassify ==
    /\ pc = "classify"
    /\ file \in ClassifyFiles
    /\ only_include_mode \in BOOLEAN
    /\ is_main = NotCalled
    /\ root_dir = [abs |-> TRUE, comps |-> <<>>]
    /\ tree = {}
    /\ default_engine = "xelatex"
    /\ tasks = <<>>
    /\ quiet_in_process = FALSE
    /\ futures = <<>>
    /\ state = <<>>
    /\ attempts = <<>>
    /\ beh = <<>>
    /\ yielded = {}
    /\ task_cnt = 0
    /\ task_results = <<>>
    /\ detected = NotCalled
    /\ NoRun

SpecClassify == InitClassify /\ [][Classify]_vars

---------------------------------------------------------------------------
(* The engine detection on one file. *)

\* lines of the files get_tex_engine is tried on
EngineLines ==
    { <<"% !TEX", BLANK, "pdflatex">>,
      <<BLANK, "% !TEX", BLANK, "program", BLANK, "lualatex", BLANK>>,
      <<"% !TEX", BLANK, "xelatex", BLANK, "pdflatex">>,
      <<"% !TEX", BLANK, "root">>,
      <<"%", BLANK, "lualatex">>,
      <<"\\usepackage{ctex}">>,
      <<"\\begin{document}", BLANK, "ctex">>,
      <<"text">> }

EngineFiles ==
    [readable : BOOLEAN, lines : SeqsUpTo(EngineLines, MaxLines)]

DetectEngine ==
    /\ pc = "detect"
    /\ detected' = <<get_tex_engine(file, default_engine)>>
    /\ pc' = "detected"
    /\ UNCHANGED <<file, is_main, discoveryVars, poolVars, argVars, effectVars>>

InitEngine ==
    /\ pc = "detect"
    /\ file \in EngineFiles
    /\ default_engine \in Engines
    /\ only_include_mode = FALSE
    /\ is_main = NotCalled
    /\ detected = NotCalled
    /\ root_dir = [abs |-> TRUE, comps |-> <<>>]
    /\ tree = {}
    /\ tasks = <<>>
    /\ quiet_in_process = FALSE
    /\ futures = <<>>
    /\ state = <<>>
    /\ attempts = <<>>
    /\ beh = <<>>
    /\ yielded = {}
    /\ task_cnt = 0
    /\ task_results = <<>>
    /\ NoRun

SpecEngine == InitEngine /\ [][DetectEngine]_vars

---------------------------------------------------------------------------
(* main: discovery. *)

Discover ==
    /\ pc = "discover"
    /\ tasks' = generate_compile_tasks(root_dir, tree, default_engine, only_include_mode)
    /\ pc' = "submit"
    /\ UNCHANGED <<classifyVars, root_dir, tree, default_engine, only_include_mode, poolVars,
                   argVars, effectVars>>

InitDiscover ==
    /\ pc = "discover"
    /\ file = [readable |-> FALSE, lines |-> <<>>]
    /\ is_main = NotCalled
    /\ root_dir \in RootDirs
    /\ tree \in Trees
    /\ default_engine \in Engines
    /\ only_include_mode \in BOOLEAN
    /\ tasks = <<>>
    /\ quiet_in_process = FALSE
    /\ futures = <<>>
    /\ state = <<>>
    /\ attempts = <<>>
    /\ beh = <<>>
    /\ yielded = {}
    /\ task_cnt = 0
    /\ task_results = <<>>
    /\ detected = NotCalled
    /\ NoRun

SpecDiscover == InitDiscover /\ [][Discover]_vars

---------------------------------------------------------------------------
(* run_compile_tasks: the process pool and the loop over as_completed.     *)
(* A future is [state, result, exception]: state as concurrent.futures     *)
(* names it, result <<r>> once the worker returned r, exception the name   *)
(* of the exception result() raises, or "none".                            *)

PendingFuture == [state |-> "PENDING", result |-> <<>>, exception |-> "none"]

Indices == 1..Len(tasks)

Running == {i \in DOMAIN futures : futures[i].state = "RUNNING"}

\* futures = {executor.submit(run_single_compile_task, task): task for task in tasks}
Submit ==
    /\ pc = "submit"
    /\ futures' = [i \in Indices |-> PendingFuture]
    /\ state' = [i \in Indices |-> "Pending"]
    /\ attempts' = [i \in Indices |-> 0]
    /\ beh' = [i \in Indices |-> <<>>]
    /\ yielded' = {}
    /\ task_cnt' = 0
    /\ task_results' = <<>>
    /\ worker_task' = [i \in Indices |-> <<>>]
    /\ out' = Append(out, Line("processing", NoField, NoField, NoField, <<Len(tasks)>>))
    /\ pc' = "loop"
    /\ UNCHANGED <<classifyVars, discoveryVars, quiet_in_process, argVars, fileVars>>

\* a pool that runs a task again when its result reports a failure
StartTaskRetrying(i) ==
    /\ pc = "loop"
    /\ \/ futures[i].state = "PENDING"
       \/ /\ futures[i].state = "FINISHED"
          /\ futures[i].exception = "none"
          /\ ~futures[i].result[1].success
          /\ i \notin yielded
          /\ attempts[i] < 2
    /\ Cardinality(Running) < PoolSize
    /\ futures' = [futures EXCEPT ![i] = [state |-> "RUNNING", result |-> <<>>,
                                          exception |-> "none"]]
    /\ state' = [state EXCEPT ![i] = "Running"]
    /\ attempts' = [attempts EXCEPT ![i] = @ + 1]
    /\ UNCHANGED <<pc, classifyVars, discoveryVars, quiet_in_process, beh, yielded,
                   task_cnt, task_results, worker_task, argVars, effectVars>>

\* a free worker takes the next queued call and enters run_single_compile_task,
\* up to its call of subprocess.run
StartTask(i) ==
    /\ pc = "loop"
    /\ futures[i].state = "PENDING"
    /\ \A j \in 1..(i - 1) : futures[j].state # "PENDING"
    /\ Cardinality(Running) < PoolSize
    /\ futures' = [futures EXCEPT ![i].state = "RUNNING"]
    /\ state' = [state EXCEPT ![i] = "Running"]
    /\ attempts' = [attempts EXCEPT ![i] = @ + 1]
    /\ UNCHANGED <<pc, classifyVars, discoveryVars, quiet_in_process, beh, yielded,
                   task_cnt, task_results, worker_task, argVars, effectVars>>

\* subprocess.run ends as b says; the worker finishes run_single_compile_task
\* and hands the outcome to the future
FinishTask(i, b) ==
    /\ pc = "loop"
    /\ futures[i].state = "RUNNING"
    /\ LET r == run_single_compile_task(tasks[i], b)
       IN /\ futures' = [futures EXCEPT ![i] =
                 IF r.raised = "none"
                 THEN [state |-> "FINISHED", result |-> <<r.value>>, exception |-> "none"]
                 ELSE [state |-> "FINISHED", result |-> <<>>, exception |-> r.raised]]
          /\ state' = [state EXCEPT ![i] = IF r.raised = "none" THEN r.outcome ELSE @]
    /\ beh' = [beh EXCEPT ![i] = <<b>>]
    /\ worker_task' = [worker_task EXCEPT ![i] = <<TaskAfterCall(tasks[i], b)>>]
    /\ UNCHANGED <<pc, classifyVars, discoveryVars, quiet_in_process, attempts, yielded,
                   task_cnt, task_results, argVars, effectVars>>

\* a worker process dies while it runs a task: the pool is broken and every
\* future that has not finished fails with BrokenProcessPool
WorkerCrash ==
    /\ pc = "loop"
    /\ Running # {}
    /\ futures' = [i \in DOMAIN futures |->
                      IF futures[i].state = "FINISHED" THEN futures[i]
                      ELSE [state |-> "FINISHED", result |-> <<>>,
                            exception |-> "BrokenProcessPool"]]
    /\ UNCHANGED <<pc, classifyVars, discoveryVars, quiet_in_process, state, attempts,
                   beh, yielded, task_cnt, task_results, worker_task, argVars,
                   effectVars>>

\* a loop that keeps the successful results only
RetrieveResultDroppingFailed(i) ==
    /\ pc = "loop"
    /\ i \notin yielded
    /\ futures[i].state = "FINISHED"
    /\ futures[i].exception = "none"
    /\ yielded' = yielded \cup {i}
    /\ task_results' = IF futures[i].result[1].success
                       THEN Append(task_results, futures[i].result[1])
                       ELSE task_results
    /\ out' = out \o show_current_compile_result(futures[i].result[1], Len(tasks),
                                                  task_cnt, quiet_in_process)
    /\ task_cnt' = task_cnt + 1
    /\ UNCHANGED <<pc, classifyVars, discoveryVars, quiet_in_process, futures, state,
                   attempts, beh, worker_task, argVars, fileVars>>

\* task_result = future.result(); task_results.append(task_result);
\* show_current_compile_result(...); task_cnt += 1
RetrieveResult(i) ==
    /\ pc = "loop"
    /\ i \notin yielded
    /\ futures[i].state = "FINISHED"
    /\ futures[i].exception = "none"
    /\ yielded' = yielded \cup {i}
    /\ task_results' = Append(task_results, futures[i].result[1])
    /\ out' = out \o show_current_compile_result(futures[i].result[1], Len(tasks),
                                                  task_cnt, quiet_in_process)
    /\ task_cnt' = task_cnt + 1
    /\ UNCHANGED <<pc, classifyVars, discoveryVars, quiet_in_process, futures, state,
                   attempts, beh, worker_task, argVars, fileVars>>

\* the subscript of the except clause's message: futures[future][0]
HandlerKey == "0"

\* d[key] on a dict
GetItem(d, key) ==
    IF key \in DOMAIN d
    THEN [raised |-> "none", value |-> <<d[key]>>]
    ELSE [raised |-> "KeyError", value |-> <<>>]

\* the except clause of the loop: the exception it raises itself, or "none"
HandleRetrievalError(task) == GetItem(task, HandlerKey).raised

\* future.result() raises: the except clause runs, then task_cnt += 1 unless
\* the clause raised
RetrieveError(i) ==
    /\ pc = "loop"
    /\ i \notin yielded
    /\ futures[i].state = "FINISHED"
    /\ futures[i].exception # "none"
    /\ yielded' = yielded \cup {i}
    /\ IF HandleRetrievalError(tasks[i]) = "none"
       THEN /\ task_cnt' = task_cnt + 1
            /\ pc' = pc
       ELSE /\ task_cnt' = task_cnt
            /\ pc' = "raised"
    /\ UNCHANGED <<classifyVars, discoveryVars, quiet_in_process, futures, state,
                   attempts, beh, task_results, worker_task, argVars, effectVars>>

\* as_completed is exhausted, the with block ends: return task_results
Return ==
    /\ pc = "loop"
    /\ yielded = DOMAIN futures
    /\ pc' = "returned"
    /\ UNCHANGED <<classifyVars, discoveryVars, poolVars, argVars, effectVars>>

Init ==
    /\ pc = "discover"
    /\ file = [readable |-> FALSE, lines |-> <<>>]
    /\ is_main = NotCalled
    /\ root_dir = [abs |-> TRUE, comps |-> << <<"r">> >>]
    /\ tree \in BatchTrees
    /\ default_engine = "xelatex"
    /\ only_include_mode = FALSE
    /\ tasks = <<>>
    /\ quiet_in_process \in BOOLEAN
    /\ futures = <<>>
    /\ state = <<>>
    /\ attempts = <<>>
    /\ beh = <<>>
    /\ yielded = {}
    /\ task_cnt = 0
    /\ task_results = <<>>
    /\ detected = NotCalled
    /\ NoRun

Next ==
    \/ Discover
    \/ Submit
    \/ \E i \in DOMAIN futures : StartTask(i)
    \/ \E i \in DOMAIN futures : \E b \in Behaviours : FinishTask(i, b)
    \/ WorkerCrash
    \/ \E i \in DOMAIN futures : RetrieveResult(i)
    \/ \E i \in DOMAIN futures : RetrieveError(i)
    \/ Return

Spec == Init /\ [][Next]_vars

\* the pool's workers and the loop are scheduled fairly; nothing forces a
\* worker process to die
PoolFairness ==
    /\ WF_vars(Submit)
    /\ WF_vars(\E i \in DOMAIN futures : StartTask(i))
    /\ WF_vars(\E i \in DOMAIN futures : \E b \in Behaviours : FinishTask(i, b))
    /\ WF_vars(\E i \in DOMAIN futures : RetrieveResult(i))
    /\ WF_vars(\E i \in DOMAIN futures : RetrieveError(i))
    /\ WF_vars(Return)

Fairness ==
    /\ WF_vars(Discover)
    /\ PoolFairness

FairSpec == Init /\ [][Next]_vars /\ Fairness

---------------------------------------------------------------------------
(* main: the steps around discovery and the pool. *)

\* if args.dry_run: discovery, the planned tasks, return
DryRun ==
    /\ pc = "main"
    /\ dry_run
    /\ tasks' = generate_compile_tasks(root_dir, tree, default_engine, only_include_mode)
    /\ out' = out \o DryRunLines(tasks')
    /\ pc' = "done"
    /\ UNCHANGED <<classifyVars, root_dir, tree, default_engine, only_include_mode,
                   poolVars, argVars, fileVars>>

\* a main that looks at pre_clean and no_compile before dry_run
PreCleanBeforeDryRun(failing) ==
    /\ pc = "main"
    /\ IF pre_clean
       THEN /\ aux_dirs' = clean_all_aux_subdirs_if_exist(aux_dirs, failing)
            /\ out' = Append(out, Line("pre_clean_completed", NoField, NoField, NoField,
                                       NoField))
       ELSE /\ failing = {}
            /\ UNCHANGED <<aux_dirs, out>>
    /\ pc' = IF no_compile THEN "skip" ELSE "discover"
    /\ UNCHANGED <<classifyVars, discoveryVars, poolVars, argVars, logfile, log_status>>

\* past the dry-run branch: if args.pre_clean: clean and print; then the test
\* of args.no_compile
PreClean(failing) ==
    /\ pc = "main"
    /\ ~dry_run
    /\ IF pre_clean
       THEN /\ aux_dirs' = clean_all_aux_subdirs_if_exist(aux_dirs, failing)
            /\ out' = Append(out, Line("pre_clean_completed", NoField, NoField, NoField,
                                       NoField))
       ELSE /\ failing = {}
            /\ UNCHANGED <<aux_dirs, out>>
    /\ pc' = IF no_compile THEN "skip" ELSE "discover"
    /\ UNCHANGED <<classifyVars, discoveryVars, poolVars, argVars, logfile, log_status>>

\* a no-compile branch that reports counts all the same
SkipCompileWithSummary ==
    /\ pc = "skip"
    /\ out' = out \o show_compile_results(<<>>)
    /\ pc' = "done"
    /\ UNCHANGED <<classifyVars, discoveryVars, poolVars, argVars, fileVars>>

\* else: print("Compilation skipped.")
SkipCompile ==
    /\ pc = "skip"
    /\ out' = Append(out, Line("compilation_skipped", NoField, NoField, NoField, NoField))
    /\ pc' = "done"
    /\ UNCHANGED <<classifyVars, discoveryVars, poolVars, argVars, fileVars>>

\* show_compile_results(tasks_results)
ShowResults ==
    /\ pc = "returned"
    /\ out' = out \o show_compile_results(task_results)
    /\ pc' = "shown"
    /\ UNCHANGED <<classifyVars, discoveryVars, poolVars, argVars, fileVars>>

\* if args.verbose: output_to_json_logfile(tasks_results); main returns
WriteLog(fail_at) ==
    /\ pc = "shown"
    /\ IF verbose
       THEN LET written == output_to_json_logfile(logfile, task_results, fail_at)
            IN /\ logfile' = written.content
               /\ log_status' = written.status
       ELSE /\ fail_at = 0
            /\ UNCHANGED <<logfile, log_status>>
    /\ pc' = "done"
    /\ UNCHANGED <<classifyVars, discoveryVars, poolVars, argVars, aux_dirs, out>>

\* the points at which writing the log can raise, and one past them
FailPoints == 0..(Len(task_results) + 1)

\* the log left by an earlier run
OldLog == << JsonLine(0, "old", "", <<>>) >>

\* the directories below root_dir that hold a .aux directory
AuxDirs == { <<>>, << <<"a">> >> }

MainTrees == {BatchTree(n) : n \in 0..Min(MaxMainTasks, Len(BatchFiles))}

InitMain ==
    /\ pc = "main"
    /\ file = [readable |-> FALSE, lines |-> <<>>]
    /\ is_main = NotCalled
    /\ detected = NotCalled
    /\ root_dir = [abs |-> TRUE, comps |-> << <<"r">> >>]
    /\ tree \in MainTrees
    /\ default_engine = "xelatex"
    /\ only_include_mode \in BOOLEAN
    /\ tasks = <<>>
    /\ quiet_in_process \in BOOLEAN
    /\ futures = <<>>
    /\ state = <<>>
    /\ attempts = <<>>
    /\ beh = <<>>
    /\ yielded = {}
    /\ task_cnt = 0
    /\ task_results = <<>>
    /\ worker_task = <<>>
    /\ dry_run \in BOOLEAN
    /\ pre_clean \in BOOLEAN
    /\ no_compile \in BOOLEAN
    /\ verbose \in BOOLEAN
    /\ aux_dirs \in SUBSET AuxDirs
    /\ out = <<>>
    /\ logfile = OldLog
    /\ log_status = "none"

NextMain ==
    \/ DryRun
    \/ \E failing \in SUBSET aux_dirs : PreClean(failing)
    \/ SkipCompile
    \/ Next
    \/ ShowResults
    \/ \E fail_at \in FailPoints : WriteLog(fail_at)

SpecMain == InitMain /\ [][NextMain]_vars

\* the control flow of the two calls of generate_compile_tasks in main: the
\* only steps that take pc from "discover" to "submit" and from "main" to "done"
\* are Discover and DryRun
DiscoverReturns == pc = "discover" /\ pc' = "submit"
DryRunReturns == pc = "main" /\ dry_run /\ pc' = "done"

\* every step of main is taken when it can be: the walk of discovery ends,
\* removing a directory or writing the log either succeeds or raises, it does
\* not block; nothing forces a worker process to die
FairnessMain ==
    /\ WF_pc(DiscoverReturns)
    /\ WF_pc(DryRunReturns)
    /\ PoolFairness
    /\ WF_vars(\E failing \in SUBSET aux_dirs : PreClean(failing))
    /\ WF_vars(SkipCompile)
    /\ WF_vars(ShowResults)
    /\ WF_vars(\E fail_at \in FailPoints : WriteLog(fail_at))

FairSpecMain == InitMain /\ [][NextMain]_vars /\ FairnessMain

---------------------------------------------------------------------------
(* The reports on a list of results. *)

SampleTasks ==
    generate_compile_tasks([abs |-> TRUE, comps |-> << <<"r">> >>], BatchTree(2),
                           "xelatex", FALSE)

\* one behaviour of the tool for each outcome
ReportBehaviours ==
    {b \in Behaviours : /\ b.runtime <= 1
                        /\ b.stderr \in {NoBytes, <<69, 33>>}
                        /\ b.error # "PermissionError"}

SampleResults ==
    {run_single_compile_task(SampleTasks[i], b).value :
         i \in DOMAIN SampleTasks, b \in ReportBehaviours}

InitReport ==
    /\ pc = "returned"
    /\ file = [readable |-> FALSE, lines |-> <<>>]
    /\ is_main = NotCalled
    /\ detected = NotCalled
    /\ root_dir = [abs |-> TRUE, comps |-> << <<"r">> >>]
    /\ tree = BatchTree(2)
    /\ default_engine = "xelatex"
    /\ only_include_mode = FALSE
    /\ tasks = SampleTasks
    /\ quiet_in_process = FALSE
    /\ futures = <<>>
    /\ state = <<>>
    /\ attempts = <<>>
    /\ beh = <<>>
    /\ yielded = {}
    /\ task_cnt = 0
    /\ task_results \in SeqsUpTo(SampleResults, MaxResults)
    /\ worker_task = <<>>
    /\ dry_run = FALSE
    /\ pre_clean = FALSE
    /\ no_compile = FALSE
    /\ verbose \in BOOLEAN
    /\ aux_dirs = {}
    /\ out = <<>>
    /\ logfile = OldLog
    /\ log_status = "none"

NextReport ==
    \/ ShowResults
    \/ \E fail_at \in FailPoints : WriteLog(fail_at)

SpecReport == InitReport /\ [][NextReport]_vars

---------------------------------------------------------------------------
(* Properties of run_compile_tasks and run_single_compile_task. *)

Range(q) == {q[i] : i \in DOMAIN q}

NoRetrievalError == \A i \in DOMAIN futures : futures[i].exception = "none"

\* C1: when run_compile_tasks has returned and no future failed on retrieval,
\* it returns as many results as there were tasks, and every task's tex_file is
\* the tex_file of exactly one of them.
C1_OneResultPerTask ==
    (pc = "returned" /\ NoRetrievalError) =>
        /\ Len(task_results) = Len(tasks)
        /\ \A i \in Indices :
              Cardinality({j \in DOMAIN task_results :
                              task_results[j].tex_file = tasks[i].tex_file}) = 1

\* a batch of two returned with the results in the order opposite to the tasks',
\* one of them a failure
C1_Witness ==
    /\ pc = "returned"
    /\ Len(tasks) >= 2
    /\ Len(task_results) >= 2
    /\ task_results[1].tex_file = tasks[2].tex_file
    /\ ~task_results[1].success
    /\ task_results[2].success

\* C2: a future whose result() raises does not abort the batch:
\* run_compile_tasks never ends by raising, and when it has returned, the result
\* of every future that holds one is in the returned list.
C2_RetrievalErrorIsolated ==
    /\ pc # "raised"
    /\ pc = "returned" =>
          \A i \in DOMAIN futures :
              futures[i].exception = "none" => futures[i].result[1] \in Range(task_results)

\* the external tool failed: it did not exit with code 0 within the timeout
ToolFailed(b) == b.kind # "exit" \/ b.runtime > 180 \/ b.returncode # 0

\* C3: whatever the external tool does (exit 0, nonzero exit, timeout, tool
\* missing, permission denied, undecodable output), run_single_compile_task raises
\* nothing: the future holds a result record, whose success is false whenever the
\* tool failed.
C3_NoExceptionEscapes ==
    \A i \in DOMAIN futures :
        beh[i] # <<>> =>
            /\ futures[i].exception = "none"
            /\ Len(futures[i].result) = 1
            /\ "success" \in DOMAIN futures[i].result[1]
            /\ ToolFailed(beh[i][1]) => ~futures[i].result[1].success

\* a task whose tool exited nonzero with undecodable stderr has a result
C3_Witness ==
    \E i \in DOMAIN futures :
        /\ beh[i] # <<>>
        /\ beh[i][1].kind = "exit"
        /\ beh[i][1].returncode # 0
        /\ 255 \in Range(beh[i][1].stderr)
        /\ futures[i].result # <<>>
        /\ ~futures[i].result[1].success

\* the texts of the exceptions Python raises inside the executor
InternalMessages == {ExceptionText(e) : e \in ExceptionClasses}

\* the captured stderr as text, for bytes that are ASCII
AsciiText(bytes) == [k \in 1..Len(bytes) |-> Chr(bytes[k])]

\* C4: exit code 0 gives success; a nonzero exit code gives failure with the
\* captured stderr as error_msg, never an internal exception message; a timeout
\* gives failure with 'Compilation timed out.'; any other invocation failure
\* gives failure with that failure's description.
C4_OutcomeMapping ==
    \A i \in DOMAIN futures :
        (beh[i] # <<>> /\ futures[i].result # <<>>) =>
            LET b == beh[i][1]
                r == futures[i].result[1]
                inTime == b.kind = "exit" /\ b.runtime <= 180
            IN /\ (inTime /\ b.returncode = 0) => r.success
               /\ (inTime /\ b.returncode # 0) =>
                      /\ ~r.success
                      /\ r.error_msg \notin InternalMessages
                      /\ (\A k \in 1..Len(b.stderr) : b.stderr[k] < 128)
                            => r.error_msg = AsciiText(b.stderr)
               /\ (b.kind = "hang" \/ (b.kind = "exit" /\ b.runtime > 180)) =>
                      /\ ~r.success
                      /\ r.error_msg = <<"Compilation timed out.">>
               /\ b.kind = "spawn_error" =>
                      /\ ~r.success
                      /\ r.error_msg = ExceptionText(b.error)

Outcomes == {"Succeeded", "FailedExitCode", "FailedTimeout", "FailedInternalError"}

\* the steps a task may take
TaskSteps ==
    ({"Pending"} \X {"Running"}) \cup ({"Running"} \X Outcomes)

\* the outcome a result record shows
OutcomeOf(r) ==
    IF r.success THEN "Succeeded"
    ELSE IF r.error_msg = <<"Compilation timed out.">> THEN "FailedTimeout"
    ELSE IF r.error_msg \in InternalMessages THEN "FailedInternalError"
    ELSE "FailedExitCode"

\* C5: a task is Pending, Running or in one of the four outcomes, and the
\* outcome is the one its single result shows; it moves only from Pending to
\* Running and from Running to an outcome, so an outcome is never left; a result
\* once set never changes; subprocess.run is called at most once per task.
C5_TaskStateMachine ==
    /\ [](\A i \in DOMAIN state :
            /\ state[i] \in {"Pending", "Running"} \cup Outcomes
            /\ attempts[i] <= 1
            /\ state[i] \in Outcomes <=>
                  (futures[i].result # <<>> /\ OutcomeOf(futures[i].result[1]) = state[i]))
    /\ [][\A i \in DOMAIN state :
            i \in DOMAIN state' =>
                /\ state'[i] # state[i] => <<state[i], state'[i]>> \in TaskSteps
                /\ futures[i].result # <<>> => futures'[i].result = futures[i].result
                /\ attempts'[i] >= attempts[i]]_vars

\* both tasks of a batch have run once and ended in different outcomes, and
\* the batch has returned
C5_Witness ==
    /\ pc = "returned"
    /\ Len(tasks) >= 2
    /\ state[1] = "FailedTimeout"
    /\ state[2] = "FailedInternalError"
    /\ attempts[1] = 1
    /\ attempts[2] = 1


\* C6: a task whose subprocess runs longer than the timeout ends with
\* success=false and the fixed timeout diagnostic; under fair scheduling every
\* submitted task's future eventually finishes and run_compile_tasks eventually
\* returns.
C6_TimeoutNeverHangsBatch ==
    /\ [](\A i \in DOMAIN futures :
            (/\ beh[i] # <<>>
             /\ futures[i].result # <<>>
             /\ (beh[i][1].kind = "hang" \/ beh[i][1].runtime > 180)) =>
                /\ ~futures[i].result[1].success
                /\ futures[i].result[1].error_msg = <<"Compilation timed out.">>)
    /\ \A i \in 1..MaxTasks :
          [](i \in DOMAIN futures =>
                <>(i \in DOMAIN futures /\ futures[i].state = "FINISHED"))
    /\ <>(pc = "returned")

---------------------------------------------------------------------------
(* Properties of generate_compile_tasks and is_main_tex_file. *)

\* the directories one task's latexmk writes into
WrittenDirs(task) == {out_dir(task), aux_dir(task)}

\* the directory of a task's source file
DirOf(task) == SubSeq(task.tex_file, 1, Len(task.tex_file) - 1)

\* C7 as stated: the output and auxiliary directories of any two tasks of a
\* batch are disjoint.
C7_AllTasksDisjoint ==
    pc = "submit" =>
        \A i, j \in Indices :
            i # j => WrittenDirs(tasks[i]) \cap WrittenDirs(tasks[j]) = {}

\* C7 amended: two tasks whose source files lie in different directories have
\* different output directories and different auxiliary directories, and neither
\* writes into a directory of the other; two tasks whose source files lie in the
\* same directory share both directories.
C7_DisjointAcrossDirectories ==
    pc = "submit" =>
        \A i, j \in Indices :
            i # j =>
                IF DirOf(tasks[i]) # DirOf(tasks[j])
                THEN WrittenDirs(tasks[i]) \cap WrittenDirs(tasks[j]) = {}
                ELSE /\ out_dir(tasks[i]) = out_dir(tasks[j])
                     /\ aux_dir(tasks[i]) = aux_dir(tasks[j])

\* a batch with two tasks of one directory and a third of another
C7_Witness ==
    /\ pc = "submit"
    /\ \E i, j, k \in Indices :
          /\ i # j
          /\ DirOf(tasks[i]) = DirOf(tasks[j])
          /\ DirOf(tasks[k]) # DirOf(tasks[i])

\* a directive of the first three lines naming one of the words: the line,
\* stripped and lowered, starts with '% auto-latexmk' and contains the word
NamesDirective(f, words) ==
    \E n \in 1..Min(3, Len(f.lines)) :
        LET l == LowerLine(Strip(f.lines[n]))
        IN /\ l # <<>>
           /\ l[1] = "% auto-latexmk"
           /\ \E k \in 1..Len(l) : WordsIn(l[k]) \cap words # {}

HasMarker(f) ==
    \E n \in 1..Len(f.lines) : \E k \in 1..Len(f.lines[n]) :
        "\\documentclass" \in WordsIn(f.lines[n][k])

\* C8 as stated: a file with an exclude or skip directive in its first three
\* lines is no main file, in default mode and in include-only mode.
C8_ExcludedInBothModes ==
    (pc = "classified" /\ NamesDirective(file, {"exclude", "skip"})) =>
        is_main = <<FALSE>>

\* C8 amended: such a file is no main file in default mode; in include-only
\* mode it is no main file unless an include directive also appears in its first
\* three lines, and then it is one when it is readable and has the marker.
C8_ExcludedUnlessIncluded ==
    (pc = "classified" /\ NamesDirective(file, {"exclude", "skip"})) =>
        IF only_include_mode
        THEN is_main = << /\ file.readable
                          /\ HasMarker(file)
                          /\ NamesDirective(file, {"include"}) >>
        ELSE is_main = <<FALSE>>

\* default mode has refused a readable file with the marker for its skip
\* directive on the third line
C8_Witness ==
    /\ pc = "classified"
    /\ ~only_include_mode
    /\ file.readable
    /\ HasMarker(file)
    /\ Len(file.lines) >= 3
    /\ NamesDirective([file EXCEPT !.lines = <<file.lines[3]>>], {"skip"})
    /\ ~NamesDirective(file, {"exclude"})
    /\ is_main = <<FALSE>>

\* the file without the word include in its directive lines
WithoutInclude(f) ==
    [f EXCEPT !.lines =
        [n \in 1..Len(f.lines) |->
            IF LowerLine(Strip(f.lines[n])) # <<>>
               /\ LowerLine(Strip(f.lines[n]))[1] = "% auto-latexmk"
            THEN [k \in 1..Len(f.lines[n]) |->
                     IF Lower(f.lines[n][k]) = "include" THEN "text" ELSE f.lines[n][k]]
            ELSE f.lines[n]]]

\* C9: for a readable file with the marker, include-only mode answers true
\* exactly when an include directive is within the first three lines; default
\* mode answers the same with the include directives taken out of the file.
C9_IncludeDirective ==
    (pc = "classified" /\ file.readable /\ HasMarker(file)) =>
        IF only_include_mode
        THEN is_main = <<NamesDirective(file, {"include"})>>
        ELSE /\ is_main = <<is_main_tex_file(WithoutInclude(file), FALSE)>>
             /\ is_main = <<~NamesDirective(file, {"exclude", "skip"})>>

\* include-only mode has refused a file whose only include directive is on
\* line four
C9_Witness ==
    /\ pc = "classified"
    /\ only_include_mode
    /\ file.readable
    /\ HasMarker(file)
    /\ Len(file.lines) = 4
    /\ NamesDirective([file EXCEPT !.lines = <<file.lines[4]>>], {"include"})
    /\ ~NamesDirective(file, {"include"})
    /\ is_main = <<FALSE>>

\* the absolute path of a file of the tree
PathOf(e) == abspath([abs |-> root_dir.abs, comps |-> root_dir.comps \o e.dir \o <<e.name>>])

\* C10: a file without \documentclass is the tex_file of no task, in both
\* modes and whatever directives it has.
C10_NoMarkerNoTask ==
    pc = "submit" =>
        \A e \in tree :
            ~HasMarker(e.content) => \A i \in Indices : tasks[i].tex_file # PathOf(e)

\* include-only mode has walked past a .tex file of the root directory that
\* has an include directive and no marker, and made a task of another file
C10_Witness ==
    /\ pc = "submit"
    /\ only_include_mode
    /\ \E e \in tree :
          /\ e.dir = <<>>
          /\ e.name[Len(e.name)] = ".tex"
          /\ e.content.readable
          /\ ~HasMarker(e.content)
          /\ NamesDirective(e.content, {"include"})
    /\ tasks # <<>>


---------------------------------------------------------------------------
(* C11: the priority of the engine detection. *)

LeastOf(S) == CHOOSE x \in S : \A y \in S : x <= y

FirstLine(f) == IF f.lines = <<>> THEN <<>> ELSE Strip(Head(f.lines))

\* the engines a first-line "% !TEX" directive names
DirectiveEngines(f) ==
    IF StartsWith(FirstLine(f), "% !TEX")
    THEN {e \in Engines : Contains(FirstLine(f), e)}
    ELSE {}

\* the index of the first line containing \begin{document}, or one past the end
DocumentLine(f) ==
    LeastOf({i \in 1..Len(f.lines) : Contains(f.lines[i], "\\begin{document}")}
            \cup {Len(f.lines) + 1})

CtexLinesBeforeDocument(f) ==
    {i \in 1..(DocumentLine(f) - 1) : Contains(f.lines[i], "ctex")}

\* C11: for a readable file, (1) a first-line "% !TEX" directive naming xelatex,
\* pdflatex or lualatex gives a named engine, with that line as the note, also when
\* ctex appears later; (2) otherwise ctex on a line before the first line containing
\* \begin{document} gives xelatex for every default, with that line as the note, and
\* ctex on or after that line has no effect; (3) otherwise the default comes back
\* unchanged with no note.
C11_EnginePriority ==
    (pc = "detected" /\ file.readable) =>
        LET r == detected[1]
        IN /\ DirectiveEngines(file) # {} =>
                /\ r.engine \in DirectiveEngines(file)
                /\ Cardinality(DirectiveEngines(file)) = 1 =>
                        DirectiveEngines(file) = {r.engine}
                /\ r.append_info = Some(FirstLine(file))
           /\ (DirectiveEngines(file) = {} /\ CtexLinesBeforeDocument(file) # {}) =>
                /\ r.engine = "xelatex"
                /\ r.append_info =
                       Some(Strip(file.lines[LeastOf(CtexLinesBeforeDocument(file))]))
           /\ (DirectiveEngines(file) = {} /\ CtexLinesBeforeDocument(file) = {}) =>
                /\ r.engine = default_engine
                /\ r.append_info = None

\* a directive naming pdflatex wins over a later ctex line and over the default
C11_Witness ==
    /\ pc = "detected"
    /\ file.readable
    /\ default_engine = "lualatex"
    /\ DirectiveEngines(file) = {"pdflatex"}
    /\ CtexLinesBeforeDocument(file) # {}
    /\ detected[1].engine = "pdflatex"


---------------------------------------------------------------------------
(* C12, C13, C14: discovery. *)

\* the file lies at some depth below a directory named .git or .aux
UnderSkipped(e) ==
    \E i \in 1..Len(e.dir) : e.dir[i] \in {<<".git">>, <<".aux">>}

\* the file is one the walk reaches and the classifier accepts
Qualifies(e) ==
    /\ ~UnderSkipped(e)
    /\ EndsWith(e.name, ".tex")
    /\ is_main_tex_file(e.content, only_include_mode)

PdfDirective == <<"% !TEX", BLANK, "pdflatex">>

\* C12: a main file whose first line is "% !TEX pdflatex" yields a task with
\* engine "pdf" for every default engine, and the engine of every task is one of
\* xelatex, pdf, lualatex: never pdflatex.
C12_PdfAlias ==
    pc = "submit" =>
        /\ \A i \in Indices : tasks[i].engine \in {"xelatex", "pdf", "lualatex"}
        /\ \A e \in tree :
              (Qualifies(e) /\ FirstLine(e.content) = PdfDirective) =>
                  \E i \in Indices :
                      /\ tasks[i].tex_file = PathOf(e)
                      /\ tasks[i].engine = "pdf"
        /\ \A e \in tree : \A i \in Indices :
              (tasks[i].tex_file = PathOf(e) /\ FirstLine(e.content) = PdfDirective)
                  => tasks[i].engine = "pdf"

\* a file with the directive became a "pdf" task under the default lualatex
C12_Witness ==
    /\ pc = "submit"
    /\ default_engine = "lualatex"
    /\ \E e \in tree : \E i \in Indices :
          /\ FirstLine(e.content) = PdfDirective
          /\ tasks[i].tex_file = PathOf(e)
          /\ tasks[i].engine = "pdf"

\* C13: no file at any depth below a directory named .git or .aux is the file of
\* a task, no such directory is visited, and the tasks are those of the tree
\* without these files.
C13_SkippedDirsNeverVisited ==
    pc = "submit" =>
        /\ \A e \in tree :
              UnderSkipped(e) => \A i \in Indices : tasks[i].tex_file # PathOf(e)
        /\ \A d \in Range(WalkFrom(tree, <<>>)) :
              \A i \in 1..Len(d) : d[i] \notin {<<".git">>, <<".aux">>}
        /\ tasks = generate_compile_tasks(root_dir, {e \in tree : ~UnderSkipped(e)},
                                          default_engine, only_include_mode)

\* the walk has passed a .tex file two levels below a .git directory that the
\* classifier accepts, and has made a task of another file
C13_Witness ==
    /\ pc = "submit"
    /\ tasks # <<>>
    /\ \E e \in tree :
          /\ UnderSkipped(e)
          /\ Len(e.dir) >= 3
          /\ EndsWith(e.name, ".tex")
          /\ is_main_tex_file(e.content, only_include_mode)

\* C14: a file whose read raises is answered FALSE by is_main_tex_file and
\* (default engine, no note) by get_tex_engine, is the file of no task, and the
\* tasks are those of the tree without it.
C14_ReadErrorIsolated ==
    pc = "submit" =>
        /\ \A e \in tree :
              ~e.content.readable =>
                  /\ \A mode \in BOOLEAN : is_main_tex_file(e.content, mode) = FALSE
                  /\ get_tex_engine(e.content, default_engine)
                        = [engine |-> default_engine, append_info |-> None]
                  /\ \A i \in Indices : tasks[i].tex_file # PathOf(e)
        /\ tasks = generate_compile_tasks(root_dir, {e \in tree : e.content.readable},
                                          default_engine, only_include_mode)

\* the walk has met an unreadable .tex file and made a task of another file
C14_Witness ==
    /\ pc = "submit"
    /\ tasks # <<>>
    /\ \E e \in tree :
          /\ ~e.content.readable
          /\ ~UnderSkipped(e)
          /\ EndsWith(e.name, ".tex")


---------------------------------------------------------------------------
(* C17: the progress lines of run_compile_tasks. *)

\* the first lines of the progress reports printed so far
Headers == SelectSeq(out, LAMBDA l : l.kind \in {"current_failed", "current_succeeded"})

\* C17: the j-th retrieved result, when it failed, is printed with the counter
\* j/N, its command and its diagnostic whether or not quiet mode is set; when it
\* succeeded it is printed, with the counter j/N, exactly when quiet mode is off;
\* the printed counters are strictly increasing and never exceed N.
C17_ProgressLines ==
    pc \in {"loop", "returned", "raised"} =>
        /\ \A k \in 1..Len(Headers) :
              /\ Headers[k].counter[2] >= 1
              /\ Headers[k].counter[2] <= Len(tasks)
              /\ Headers[k].counter[3] = Len(tasks)
              /\ k > 1 => Headers[k - 1].counter[2] < Headers[k].counter[2]
              /\ Headers[k].counter[2] <= Len(task_results)
              /\ (Headers[k].kind = "current_failed")
                    = ~task_results[Headers[k].counter[2]].success
        /\ \A j \in 1..Len(task_results) :
              LET r == task_results[j]
              IN IF ~r.success
                 THEN \E k \in 1..(Len(out) - 2) :
                         /\ out[k].kind = "current_failed"
                         /\ out[k].counter[2] = j
                         /\ out[k].tex_file = r.tex_file
                         /\ out[k + 1].kind = "full_command"
                         /\ out[k + 1].text = r.full_command
                         /\ out[k + 2].kind = "error_msg"
                         /\ out[k + 2].text = r.error_msg
                 ELSE (\E k \in 1..Len(out) :
                         /\ out[k].kind = "current_succeeded"
                         /\ out[k].counter[2] = j
                         /\ out[k].tex_file = r.tex_file)
                      <=> ~quiet_in_process

\* in quiet mode a success was retrieved first and a failure second: the only
\* progress report is the failure's, with the counter 2/2
C17_Witness ==
    /\ pc = "returned"
    /\ quiet_in_process
    /\ Len(task_results) = 2
    /\ task_results[1].success
    /\ ~task_results[2].success
    /\ Len(Headers) = 1
    /\ Headers[1].counter[2] = 2

---------------------------------------------------------------------------
(* C20: the result record of run_single_compile_task. *)

\* C20: every returned result has the task's tex_file, subdir, engine and
\* append_info, has elapsed_time and full_command, has error_msg exactly when
\* success is false, and the worker's task record is as it was passed.
C20_ResultCarriesTask ==
    \A i \in DOMAIN futures :
        (futures[i].state = "FINISHED" /\ futures[i].exception = "none") =>
            LET r == futures[i].result[1]
                t == tasks[i]
            IN /\ r.tex_file = t.tex_file
               /\ r.subdir = t.subdir
               /\ r.engine = t.engine
               /\ r.append_info = t.append_info
               /\ {"success", "elapsed_time", "full_command"} \subseteq DOMAIN r
               /\ ("error_msg" \in DOMAIN r) <=> ~r.success
               /\ worker_task[i] = <<t>>
               /\ DOMAIN t = {"tex_file", "subdir", "engine", "append_info"}

\* one task's call returned a success and another's a failure
C20_Witness ==
    \E i, j \in DOMAIN futures :
        /\ futures[i].state = "FINISHED" /\ futures[i].exception = "none"
        /\ futures[j].state = "FINISHED" /\ futures[j].exception = "none"
        /\ futures[i].result[1].success
        /\ ~futures[j].result[1].success
        /\ "error_msg" \in DOMAIN futures[j].result[1]
        /\ worker_task[j] = <<tasks[j]>>


---------------------------------------------------------------------------
(* C15: the final report. *)

FailedResults == SelectSeq(task_results, LAMBDA r : ~r.success)

\* C15: the summary line carries a success count and a failure count whose sum
\* is the number of results, the failure count being the number of results with
\* success false; with no failure nothing else is printed; otherwise a heading
\* follows and then, for each failed result in order, once, its file, its command
\* and its diagnostic, and nothing for a successful result.
C15_FinalReport ==
    pc \in {"shown", "done"} =>
        LET f == Cardinality({j \in DOMAIN task_results : ~task_results[j].success})
        IN /\ Len(out) >= 1
           /\ out[1].kind = "summary"
           /\ out[1].text[1] + out[1].text[2] = Len(task_results)
           /\ out[1].text[2] = f
           /\ f = 0 => Len(out) = 1
           /\ f > 0 =>
                /\ Len(out) = 2 + 3 * f
                /\ out[2].kind = "failed_tasks"
                /\ \A k \in 1..f :
                      /\ out[3 * k].kind = "failed_task"
                      /\ out[3 * k].tex_file = FailedResults[k].tex_file
                      /\ out[3 * k].engine = FailedResults[k].engine
                      /\ out[3 * k + 1].kind = "full_command"
                      /\ out[3 * k + 1].text = FailedResults[k].full_command
                      /\ out[3 * k + 2].kind = "error_msg"
                      /\ out[3 * k + 2].text = FailedResults[k].error_msg

\* two successes and one failure were reported as "Succeeded: 2   Failed: 1"
C15_Witness ==
    /\ pc = "shown"
    /\ Len(task_results) = 3
    /\ Len(FailedResults) = 1
    /\ out[1].kind = "summary"
    /\ out[1].text = <<2, 1>>
    /\ Len(out) = 5

---------------------------------------------------------------------------
(* C19: the log file. *)

\* reading the file back: the objects it holds, and whether it is a sequence
\* of whole objects and nothing else
RECURSIVE ParseLines(_, _, _, _)
ParseLines(lines, objs, cur, list) ==
    IF lines = <<>>
    THEN [objs |-> objs, whole |-> cur = <<>>]
    ELSE LET l == Head(lines)
             rest == Tail(lines)
         IN CASE l.token = "{" /\ cur = <<>> ->
                     ParseLines(rest, objs, << <<>> >>, <<>>)
              [] l.token = "}" /\ cur # <<>> ->
                     ParseLines(rest, Append(objs, cur[1]), <<>>, <<>>)
              [] l.token = "member" /\ cur # <<>> ->
                     ParseLines(rest, objs, <<(l.key :> l.value[1]) @@ cur[1]>>, <<>>)
              [] l.token = "[" /\ cur # <<>> ->
                     ParseLines(rest, objs, cur, <<l.key, <<>> >>)
              [] l.token = "item" /\ list # <<>> ->
                     ParseLines(rest, objs, cur, <<list[1], Append(list[2], l.value[1])>>)
              [] l.token = "]" /\ list # <<>> ->
                     ParseLines(rest, objs, <<(list[1] :> list[2]) @@ cur[1]>>, <<>>)
              [] OTHER -> [objs |-> <<>>, whole |-> FALSE]

\* the lines one result takes in the file: one per key, one per word of the
\* command, the two brackets of the command and the closing brace
RECURSIVE LinesOfResults(_)
LinesOfResults(results) ==
    IF results = <<>> THEN 0
    ELSE Cardinality(DOMAIN Head(results)) + Len(Head(results).full_command) + 3
         + LinesOfResults(Tail(results))

\* the statement as claimed: as many lines as results
C19_OneLinePerResult ==
    log_status = "written" => Len(logfile) = Len(task_results)

\* C19: when the log is written, the file holds one JSON object per result,
\* successes included, in result order and nothing of its previous content; each
\* object spans several lines: one per key, one per word of the command, and
\* three for the command's brackets and the closing brace.
C19_LogHoldsResults ==
    log_status = "written" =>
        LET read == ParseLines(logfile, <<>>, <<>>, <<>>)
        IN /\ read.whole
           /\ Len(read.objs) = Len(task_results)
           /\ \A j \in 1..Len(task_results) : read.objs[j] = task_results[j]
           /\ Len(logfile) = LinesOfResults(task_results)
           /\ task_results # <<>> => Len(logfile) > Len(task_results)

\* a success and a failure were written: 19 and 20 lines
C19_Witness ==
    /\ log_status = "written"
    /\ Len(task_results) = 2
    /\ task_results[1].success
    /\ ~task_results[2].success
    /\ Len(logfile) = 39

---------------------------------------------------------------------------
(* C16, C18: main. *)

SummaryLines == SelectSeq(out, LAMBDA l : l.kind = "summary")

C18_DryRunDiscoversOnly ==
    /\ [](dry_run =>
             /\ pc \in {"main", "done"}
             /\ futures = <<>>
             /\ attempts = <<>>
             /\ beh = <<>>
             /\ task_results = <<>>
             /\ log_status = "none"
             /\ logfile = OldLog
             /\ pc = "done" =>
                   /\ tasks = generate_compile_tasks(root_dir, tree, default_engine,
                                                     only_include_mode)
                   /\ Len(out) = Len(tasks) + 2
                   /\ out[1].kind = "dry_run_header"
                   /\ out[1].text = <<Len(tasks)>>
                   /\ \A k \in 1..Len(tasks) :
                         /\ out[k + 1].kind = "dry_run_task"
                         /\ out[k + 1].counter[2] = k
                         /\ out[k + 1].counter[3] = Len(tasks)
                         /\ out[k + 1].tex_file = tasks[k].tex_file
                         /\ out[k + 1].engine = tasks[k].engine
                   /\ out[Len(out)].kind = "dry_run_finished")
    /\ [][dry_run => (aux_dirs' = aux_dirs /\ logfile' = logfile)]_vars
    /\ dry_run => <>(pc = "done")

\* a dry run with pre_clean, no_compile and verbose set has ended with every
\* .aux directory in place and one planned task
C18_Witness ==
    /\ pc = "done"
    /\ dry_run
    /\ pre_clean
    /\ no_compile
    /\ verbose
    /\ aux_dirs = AuxDirs
    /\ Len(tasks) = 1
    /\ Len(out) = 3

====
